---- MODULE Spec2Model ----
(***************************************************************************)
(* Receipts ("romaneios") of the lumber-yard application: the create,      *)
(* update and delete request handlers of apps/romaneio/views.py, the       *)
(* nested item / unit formsets they validate and save, and the rollup of   *)
(* totals that follows every save.                                         *)
(*                                                                         *)
(* The handlers touch one receipt (self.object) and its children only, so  *)
(* the persisted state tracked here is the life of one receipt: its        *)
(* header, its items in primary-key order, and each item's units in        *)
(* primary-key order.                                                      *)
(***************************************************************************)
EXTENDS Integers, Sequences, FiniteSets, TLC

VARIABLES
    db,         \* the persisted receipt, or NoRomaneio
    req,        \* the POST being answered, or NoPost between requests
    antes,      \* the persisted state when that request arrived
    resp,       \* the answer to that request
    tipos,      \* the wood types: id -> [preco_normal, preco_com_frete]
    precoReq,   \* the query string of the price lookup being answered
    precoResp,  \* its JSON answer and HTTP status
    romaneios,  \* the receipts the list view selects from: id -> header
    agora,      \* datetime.now() of the list request: [month, year]
    listaReq,   \* the query string of the list request
    listaResp   \* the ids of the receipts get_queryset returns

varsSave == <<db, req, antes, resp>>
varsPreco == <<tipos, precoReq, precoResp>>
varsLista == <<romaneios, agora, listaReq, listaResp>>
vars == <<db, req, antes, resp, tipos, precoReq, precoResp,
          romaneios, agora, listaReq, listaResp>>

\* ------------------------------------------------------------------ bounds
MaxItens == 2      \* item rows per submission
MaxUnid == 2       \* unit rows per item row
MaxVol == 1        \* largest volume typed into one field
MaxPreco == 2      \* unit prices range over 2..MaxPreco
MaxTipos == 2      \* wood types in the price table
MaxTabela == 3     \* largest price of the price table
MaxLista == 2      \* receipts in the listed table

Vols == 1..MaxVol
Precos == 2..MaxPreco

\* A posted number field holds a volume (>= 1), nothing (0) or text that is
\* no number (-1).
EmBranco(v) == v = 0

NoRomaneio == [tipo |-> "nenhum"]
NoPost == [tipo |-> "nenhum"]
Idle == [op |-> "nenhuma", status |-> "idle", erros |-> {}, falha |-> "nenhuma"]

\* ----------------------------------------------------------------- helpers
RECURSIVE Soma(_)
Soma(s) == IF s = <<>> THEN 0 ELSE Head(s) + Soma(Tail(s))

RECURSIVE Prod(_)
\* all sequences whose i-th element is drawn from D[i]
Prod(D) == IF D = <<>> THEN {<<>>}
           ELSE {<<h>> \o t : h \in Head(D), t \in Prod(Tail(D))}

Indices(a, b) == [i \in 1..(IF b >= a THEN b - a + 1 ELSE 0) |-> a + i - 1]

Posicao(s, x) == CHOOSE i \in 1..Len(s) : s[i] = x

Existe(r) == r # NoRomaneio

\* --------------------------------------------------------- persisted records
\* Item:     [quantidade_m3_total, valor_unitario, valor_total, unidades]
\* Romaneio: [tipo |-> "romaneio", modalidade, m3_total, valor_bruto, itens]
\* unidades is the sequence of the unit volumes, itens the sequence of items,
\* both in primary-key order (the order of an inline formset's queryset).
NoItem == [tipo |-> "nenhum"]

ItensDe(r) == IF Existe(r) THEN r.itens ELSE <<>>

\* ------------------------------------------------------------- posted rows
\* Unit row:  [v, del]            v the volume field, del the DELETE box
\* Item row:  [v, p, del, us]     v the volume field, p the unit price,
\*                                us the unit rows posted under unidades-(i-1)
\* Rows 1..n of a submission are the initial forms of the n persisted items
\* (or units), the rows after them are extra forms.

\* ModelForm.has_changed of a unit row bound to persisted volume `inst`
\* (0: an extra form, whose initial data is empty).
unidade_has_changed(row, inst) == row.del \/ row.v # inst

\* A changed unit row is valid when its volume is a number.
unidade_is_valid(row, inst) == ~unidade_has_changed(row, inst) \/ row.v >= 1

item_has_changed(row, inst) ==
    \/ row.del
    \/ IF inst = NoItem THEN ~EmBranco(row.v)
       ELSE row.v # inst.quantidade_m3_total \/ row.p # inst.valor_unitario

item_is_valid(row, inst) == ~item_has_changed(row, inst) \/ row.v >= 1

\* BaseFormSet.is_valid: the forms marked for deletion are not validated.
ItemFormSet_is_valid(rows, itens) ==
    \A i \in 1..Len(rows) :
        rows[i].del \/ item_is_valid(rows[i], IF i <= Len(itens) THEN itens[i] ELSE NoItem)

\* UnidadeRomaneioFormSet(POST, instance, prefix).is_valid().  `us` are the
\* rows posted under the prefix, of which the first `nIni` are initial forms
\* (INITIAL_FORMS of the posted management form); `unidades` are the units of
\* `instance` and `mesma` says that the initial rows were rendered for this
\* very instance.  An initial row rendered for another item carries the id of
\* a unit that is not in the instance's queryset: an invalid choice.
UnidadeFormSet_is_valid(us, nIni, unidades, mesma) ==
    \A k \in 1..Len(us) :
        \/ us[k].del
        \/ IF k <= nIni
           THEN mesma /\ unidade_is_valid(us[k], unidades[k])
           ELSE unidade_is_valid(us[k], 0)

\* UnidadeRomaneioFormSet.save(): deletes and updates through the initial
\* rows (a row whose id matched no unit of the instance has no object and is
\* skipped), then creates a unit for every changed extra row.
UnidadeFormSet_save(us, nIni, unidades, mesma) ==
    LET ini == IF mesma THEN nIni ELSE 0
        mantidas == SelectSeq(Indices(1, Len(unidades)),
                              LAMBDA k : ~(k <= ini /\ us[k].del))
        velhas == [j \in 1..Len(mantidas) |->
                      LET k == mantidas[j]
                      IN IF k <= ini /\ unidade_has_changed(us[k], unidades[k])
                         THEN us[k].v ELSE unidades[k]]
        novasIdx == SelectSeq(Indices(nIni + 1, Len(us)),
                              LAMBDA k : ~us[k].del /\ unidade_has_changed(us[k], 0))
        novas == [j \in 1..Len(novasIdx) |-> us[novasIdx[j]].v]
    IN velhas \o novas

\* ItemRomaneioFormSet.save(): BaseModelFormSet.save() deletes the initial
\* rows marked DELETE (their units go with them), updates the changed initial
\* rows, creates an item for every changed extra row not marked DELETE, and
\* returns the saved instances: the changed existing ones, then the new ones.
\*   itens:  the persisted items after the save, in primary-key order
\*   linhas: linhas[j] is the submitted row that item j belongs to
\*   salvos: the rows of the returned instances, in the returned order
ItemFormSet_save(rows, itens) ==
    LET n == Len(itens)
        mantidos == SelectSeq(Indices(1, n), LAMBDA i : ~rows[i].del)
        novos == SelectSeq(Indices(n + 1, Len(rows)),
                           LAMBDA i : ~rows[i].del /\ item_has_changed(rows[i], NoItem))
        alterados == SelectSeq(mantidos, LAMBDA i : item_has_changed(rows[i], itens[i]))
        linhas == mantidos \o novos
        item(i) == IF i <= n
                   THEN IF item_has_changed(rows[i], itens[i])
                        THEN [itens[i] EXCEPT !.quantidade_m3_total = rows[i].v,
                                              !.valor_unitario = rows[i].p]
                        ELSE itens[i]
                   ELSE [quantidade_m3_total |-> rows[i].v, valor_unitario |-> rows[i].p,
                         valor_total |-> 0, unidades |-> <<>>]
    IN [itens |-> [j \in 1..Len(linhas) |-> item(linhas[j])],
        linhas |-> linhas,
        salvos |-> alterados \o novos]

\* ------------------------------------------------------------ models (rollup)
\* ItemRomaneio.atualizar_totais: the item's volume is the entered one in a
\* SIMPLES receipt and the sum of its units in a DETALHADO one; its value is
\* volume times unit price.
Item_atualizar_totais(item, modalidade) ==
    LET q == IF modalidade = "DETALHADO" THEN Soma(item.unidades)
             ELSE item.quantidade_m3_total
    IN [item EXCEPT !.quantidade_m3_total = q, !.valor_total = q * item.valor_unitario]

\* Romaneio.atualizar_totais: the aggregates are the sums over the items.
Romaneio_atualizar_totais(r) ==
    [r EXCEPT !.m3_total = Soma([i \in 1..Len(r.itens) |-> r.itens[i].quantidade_m3_total]),
              !.valor_bruto = Soma([i \in 1..Len(r.itens) |-> r.itens[i].valor_total])]

\* ------------------------------------------------------------------- views
FormValido(post) == post.camposOk

is_detalhado(post) == FormValido(post) /\ post.modalidade = "DETALHADO"

\* Number of initial forms under prefix unidades-(i-1): the units of the item
\* the i-th row was rendered for.
NIni(itens, i) == IF i <= Len(itens) THEN Len(itens[i].unidades) ELSE 0

UnidadesDe(itens, i) == IF i <= Len(itens) THEN itens[i].unidades ELSE <<>>

\* _build_unidades_formsets / _build_unidades_preview_for_create: one unit
\* formset per item row i, prefix unidades-(i-1), bound to the row's own
\* instance (none in create, where `itens` is empty).  The result is the
\* is_valid() of each.
build_unidades_formsets(post, itens) ==
    [i \in 1..Len(post.itens) |->
        UnidadeFormSet_is_valid(post.itens[i].us, NIni(itens, i), UnidadesDe(itens, i), TRUE)]

\* valid_units of the i-th preview formset: forms that are valid and not
\* marked DELETE.
valid_units(post, itens, i) ==
    LET us == post.itens[i].us
    IN Cardinality({k \in 1..Len(us) :
            /\ unidade_is_valid(us[k], IF k <= NIni(itens, i) THEN UnidadesDe(itens, i)[k] ELSE 0)
            /\ ~us[k].del})

\* The rule left out: every submission passes.
validate_sem_regra(post, itens) == [ok |-> TRUE, erros |-> {}]

\* _validate_detalhado_requires_units: ok, and the rows whose unit formset got
\* the "at least one unit" message.
validate_detalhado_requires_units(post, itens) ==
    IF ~is_detalhado(post) THEN [ok |-> TRUE, erros |-> {}]
    ELSE LET sem == {i \in 1..Len(post.itens) : valid_units(post, itens, i) = 0}
         IN [ok |-> sem = {}, erros |-> sem]

\* The loop of _save_unidades_for_itens: the j-th returned instance gets the
\* formset of prefix unidades-(j-1), saved when it is valid for that instance.
salvar_formsets_de_unidades(post, fs, itensAntes) ==
    [pos \in 1..Len(fs.itens) |->
        LET linha == fs.linhas[pos]
            item == fs.itens[pos]
        IN IF \A j \in 1..Len(fs.salvos) : fs.salvos[j] # linha THEN item
           ELSE LET j == Posicao(fs.salvos, linha)
                    us == post.itens[j].us
                    nIni == NIni(itensAntes, j)
                    mesma == (j = linha)
                IN IF UnidadeFormSet_is_valid(us, nIni, item.unidades, mesma)
                   THEN [item EXCEPT !.unidades =
                            UnidadeFormSet_save(us, nIni, item.unidades, mesma)]
                   ELSE item]

\* _save_unidades_for_itens without the early return of lines 184-185.
save_unidades_sem_retorno(post, fs, itensAntes) ==
    salvar_formsets_de_unidades(post, fs, itensAntes)

\* _save_unidades_for_itens: nothing unless the posted mode is DETALHADO.
save_unidades_for_itens(post, fs, itensAntes) ==
    IF post.modalidade # "DETALHADO" THEN fs.itens
    ELSE salvar_formsets_de_unidades(post, fs, itensAntes)

\* The rollup without the call of romaneio.atualizar_totais().
recalcular_sem_romaneio(r) ==
    [r EXCEPT !.itens = [i \in 1..Len(r.itens) |->
                            Item_atualizar_totais(r.itens[i], r.modalidade)]]

\* The rollup without the loop over the items.
recalcular_sem_itens(r) == Romaneio_atualizar_totais(r)

\* _recalcular_totais_apos_salvar: every item of the receipt, then the receipt.
recalcular_totais_apos_salvar(r) ==
    Romaneio_atualizar_totais(
        [r EXCEPT !.itens = [i \in 1..Len(r.itens) |->
                                Item_atualizar_totais(r.itens[i], r.modalidade)]])

\* post() without the decorator: what was written stays.
sem_atomic(before, written, raised) == written

\* @transaction.atomic around post(): an exception raised inside rolls back
\* every write of the request.
atomic(before, written, raised) == IF raised THEN before ELSE written

\* The step of a save at which an exception is raised, if any.
Falhas == {"nenhuma", "romaneio", "itens", "unidades", "totais"}

\* The writes of a save, in the order of post(): the header (form.save),
\* the items (formset.save), the units, the totals.  Each field is the
\* persisted state once that step is done.
Passos(post, r) ==
    LET cab == IF Existe(r) THEN [r EXCEPT !.modalidade = post.modalidade]
               ELSE [tipo |-> "romaneio", modalidade |-> post.modalidade,
                     m3_total |-> 0, valor_bruto |-> 0, itens |-> <<>>]
        fs == ItemFormSet_save(post.itens, ItensDe(r))
        its == [cab EXCEPT !.itens = fs.itens]
        uns == [cab EXCEPT !.itens = save_unidades_for_itens(post, fs, ItensDe(r))]
    IN [romaneio |-> cab, itens |-> its, unidades |-> uns,
        totais |-> recalcular_totais_apos_salvar(uns)]

\* What the request has written when it ends: everything, or the steps
\* before the one that raised.
Escrito(post, r, falha) ==
    LET p == Passos(post, r)
    IN CASE falha = "nenhuma" -> p.totais
         [] falha = "romaneio" -> r
         [] falha = "itens" -> p.romaneio
         [] falha = "unidades" -> p.itens
         [] falha = "totais" -> p.unidades

\* The third validation layer of RomaneioCreateView.post: every preview
\* formset valid and, only then, the at-least-one-unit rule.
unidades_valid_create(post) ==
    IF is_detalhado(post)
    THEN /\ \A i \in 1..Len(post.itens) : build_unidades_formsets(post, <<>>)[i]
         /\ validate_detalhado_requires_units(post, <<>>).ok
    ELSE TRUE

\* The rows that carry the at-least-one-unit message when create re-renders.
erros_create(post) ==
    IF /\ is_detalhado(post)
       /\ \A i \in 1..Len(post.itens) : build_unidades_formsets(post, <<>>)[i]
    THEN validate_detalhado_requires_units(post, <<>>).erros
    ELSE {}

\* The update that never looks at the unit formsets.
unidades_valid_sempre(post, itens) == TRUE

\* The third validation layer of RomaneioUpdateView.post.
unidades_valid_update(post, itens) ==
    IF is_detalhado(post)
    THEN \A i \in 1..Len(post.itens) : build_unidades_formsets(post, itens)[i]
    ELSE TRUE

\* ----------------------------------------------------------- submissions
UnitRowsIni(u) ==
    {[v |-> x, del |-> FALSE] : x \in ({0 - 1, u} \cup Vols)} \cup {[v |-> u, del |-> TRUE]}

UnitRowsExtra == {[v |-> x, del |-> FALSE] : x \in (0 - 1)..MaxVol}

\* The unit rows that can be posted under the prefix of an item with units
\* `unidades`: one initial row per unit, then extra rows.
UnitRows(unidades) ==
    LET n == Len(unidades)
    IN UNION {Prod([k \in 1..(n + e) |->
                      IF k <= n THEN UnitRowsIni(unidades[k]) ELSE UnitRowsExtra])
              : e \in 0..(IF n <= MaxUnid THEN MaxUnid - n ELSE 0)}

ItemRowsIni(it) ==
    LET campos == {<<0 - 1, it.valor_unitario>>,
                   <<it.quantidade_m3_total, it.valor_unitario>>} \cup (Vols \X Precos)
    IN {[v |-> c[1], p |-> c[2], del |-> FALSE, us |-> us] :
            c \in campos, us \in UnitRows(it.unidades)}
       \cup {[v |-> it.quantidade_m3_total, p |-> it.valor_unitario, del |-> TRUE, us |-> us] :
            us \in UnitRows(it.unidades)}

ItemRowsExtra ==
    LET campos == {<<0 - 1, 0>>, <<0, 0>>} \cup (Vols \X Precos)
    IN {[v |-> c[1], p |-> c[2], del |-> FALSE, us |-> us] :
            c \in campos, us \in UnitRows(<<>>)}
       \cup {[v |-> 0, p |-> 0, del |-> TRUE, us |-> us] : us \in UnitRows(<<>>)}

\* The submissions a client can make for a receipt with items `itens`.
Posts(itens) ==
    LET n == Len(itens)
    IN {[tipo |-> "post", modalidade |-> m, camposOk |-> ok, itens |-> rows] :
            m \in {"SIMPLES", "DETALHADO"}, ok \in BOOLEAN,
            rows \in UNION {Prod([i \in 1..(n + e) |->
                                    IF i <= n THEN ItemRowsIni(itens[i]) ELSE ItemRowsExtra])
                            : e \in 0..(MaxItens - n)}}

\* The model follows receipts whose items hold at most MaxUnid units.
Cabe(r) == \A i \in 1..Len(ItensDe(r)) : Len(r.itens[i].unidades) <= MaxUnid

\* ------------------------------------------------------------------ actions
NoQuery == [tipo |-> "nenhum"]

InitSave ==
    /\ db = NoRomaneio
    /\ req = NoPost
    /\ antes = NoRomaneio
    /\ resp = Idle

InitPrecoVazio ==
    /\ tipos = <<>>
    /\ precoReq = NoQuery
    /\ precoResp = NoQuery

InitListaVazia ==
    /\ romaneios = <<>>
    /\ agora = [month |-> 1, year |-> 2024]
    /\ listaReq = NoQuery
    /\ listaResp = {}

Init == InitSave /\ InitPrecoVazio /\ InitListaVazia

Responde(op, post, valido, erros, falha) ==
    /\ UNCHANGED <<varsPreco, varsLista>>
    /\ req' = post
    /\ antes' = db
    /\ IF ~valido
       THEN /\ falha = "nenhuma"
            /\ db' = db
            /\ resp' = [op |-> op, status |-> "render", erros |-> erros, falha |-> falha]
       ELSE /\ Cabe(Escrito(post, db, "nenhuma"))
            /\ db' = atomic(db, Escrito(post, db, falha), falha # "nenhuma")
            /\ resp' = [op |-> op,
                        status |-> IF falha = "nenhuma" THEN "redirect" ELSE "erro500",
                        erros |-> {}, falha |-> falha]

RomaneioCreateView_post ==
    /\ resp.status = "idle"
    /\ ~Existe(db)
    /\ \E post \in Posts(<<>>), falha \in Falhas :
          LET form_valid == FormValido(post)
              formset_valid == ItemFormSet_is_valid(post.itens, <<>>)
              unidades_valid == unidades_valid_create(post)
          IN Responde("create", post, form_valid /\ formset_valid /\ unidades_valid,
                      erros_create(post), falha)

RomaneioUpdateView_post ==
    /\ resp.status = "idle"
    /\ Existe(db)
    /\ \E post \in Posts(db.itens), falha \in Falhas :
          LET form_valid == FormValido(post)
              formset_valid == ItemFormSet_is_valid(post.itens, db.itens)
              unidades_valid == unidades_valid_update(post, db.itens)
          IN Responde("update", post, form_valid /\ formset_valid /\ unidades_valid,
                      {}, falha)

\* RomaneioDeleteView: the receipt goes, and its items and units with it.
RomaneioDeleteView_post ==
    /\ resp.status = "idle"
    /\ Existe(db)
    /\ req' = NoPost
    /\ antes' = db
    /\ db' = NoRomaneio
    /\ resp' = [op |-> "delete", status |-> "redirect", erros |-> {}, falha |-> "nenhuma"]
    /\ UNCHANGED <<varsPreco, varsLista>>

\* The response is sent; the server waits for the next request.
Responder ==
    /\ resp.status # "idle"
    /\ req' = NoPost
    /\ antes' = NoRomaneio
    /\ resp' = Idle
    /\ UNCHANGED <<db, varsPreco, varsLista>>

Next ==
    \/ RomaneioCreateView_post
    \/ RomaneioUpdateView_post
    \/ RomaneioDeleteView_post
    \/ Responder

Spec == Init /\ [][Next]_vars

\* ------------------------------------------------------ query-string values
\* A GET parameter is absent (request.GET.get gives None) or a text, written
\* as the sequence of its characters.
Ausente == [dado |-> FALSE, txt |-> <<>>]
Texto(t) == [dado |-> TRUE, txt |-> t]

\* Python truth of what request.GET.get returned: None and "" are false.
Truthy(p) == p.dado /\ p.txt # <<>>

Digitos == <<"0", "1", "2", "3", "4", "5", "6", "7", "8", "9">>

EhDigito(c) == \E d \in 1..Len(Digitos) : Digitos[d] = c

ValorDigito(c) == (CHOOSE d \in 1..Len(Digitos) : Digitos[d] = c) - 1

RECURSIVE ValorDecimal(_)
ValorDecimal(t) ==
    IF t = <<>> THEN 0
    ELSE ValorDecimal(SubSeq(t, 1, Len(t) - 1)) * 10 + ValorDigito(t[Len(t)])

\* int(text): the number a non-empty run of digits writes, ValueError otherwise.
int(t) ==
    IF t # <<>> /\ \A i \in 1..Len(t) : EhDigito(t[i])
    THEN [ok |-> TRUE, val |-> ValorDecimal(t)]
    ELSE [ok |-> FALSE, val |-> 0]

\* ------------------------------------------------------------ price lookup
\* TipoMadeira.get_preco: the price of the receipt category.
get_preco(tipo_madeira, tipo_romaneio) ==
    IF tipo_romaneio = "COM_FRETE" THEN tipo_madeira.preco_com_frete
    ELSE tipo_madeira.preco_normal

\* The lookup that treats a missing wood type like any other exception.
get_preco_madeira_sem_404(tabela, q) ==
    LET id == int(q.tipo_madeira_id.txt)
    IN IF q.tipo_madeira_id.dado /\ id.ok /\ id.val \in DOMAIN tabela
       THEN [success |-> TRUE, status |-> 200,
             preco |-> get_preco(tabela[id.val], q.tipo_romaneio)]
       ELSE [success |-> FALSE, status |-> 500, preco |-> 0]

\* get_preco_madeira.  TipoMadeira.objects.get(id=...) finds no row for None
\* or for a number that is no id (DoesNotExist, 404) and raises ValueError for
\* a text that is no number (500).  Prices are in centavos; float() keeps the
\* value of a two-decimal price.
get_preco_madeira(tabela, q) ==
    LET id == int(q.tipo_madeira_id.txt)
    IN IF ~q.tipo_madeira_id.dado
       THEN [success |-> FALSE, status |-> 404, preco |-> 0]
       ELSE IF ~id.ok
       THEN [success |-> FALSE, status |-> 500, preco |-> 0]
       ELSE IF id.val \notin DOMAIN tabela
       THEN [success |-> FALSE, status |-> 404, preco |-> 0]
       ELSE [success |-> TRUE, status |-> 200,
             preco |-> get_preco(tabela[id.val], q.tipo_romaneio)]

PrecosTabela == 1..MaxTabela

Tabelas ==
    UNION {[ids -> [preco_normal : PrecosTabela, preco_com_frete : PrecosTabela]]
           : ids \in SUBSET (1..MaxTipos)}

ConsultasPreco ==
    [tipo_madeira_id : {Ausente, Texto(<<>>), Texto(<<"1">>), Texto(<<"0", "2">>),
                        Texto(<<"9">>), Texto(<<"x">>)},
     tipo_romaneio : {"NORMAL", "COM_FRETE"}]

InitPreco ==
    /\ InitSave /\ InitListaVazia
    /\ tipos \in Tabelas
    /\ precoReq = NoQuery
    /\ precoResp = NoQuery

GetPrecoMadeira ==
    /\ precoResp = NoQuery
    /\ \E q \in ConsultasPreco :
          /\ precoReq' = q
          /\ precoResp' = get_preco_madeira(tipos, q)
    /\ UNCHANGED <<tipos, varsSave, varsLista>>

NextPreco == GetPrecoMadeira

SpecPreco == InitPreco /\ [][NextPreco]_vars

\* -------------------------------------------------------------- receipt list
Minuscula(c) == IF c = "A" THEN "a" ELSE IF c = "B" THEN "b" ELSE c

\* icontains: the needle occurs in the text, letter case aside.
icontains(t, agulha) ==
    \E i \in 0..(Len(t) - Len(agulha)) :
        \A k \in 1..Len(agulha) : Minuscula(t[i + k]) = Minuscula(agulha[k])

\* The date filter without its default: no month and year, no filter.
por_data_sem_padrao(tabela, now, q) ==
    LET mes == int(q.mes.txt)
        ano == int(q.ano.txt)
    IN IF Truthy(q.mes) /\ Truthy(q.ano) /\ mes.ok /\ ano.ok
       THEN {r \in DOMAIN tabela : tabela[r].mes = mes.val /\ tabela[r].ano = ano.val}
       ELSE DOMAIN tabela

\* The date filter that takes the first branch when one of month and year is
\* given: int(None) raises TypeError, which the handler swallows.
por_data_um_basta(tabela, now, q) ==
    LET mes == int(q.mes.txt)
        ano == int(q.ano.txt)
    IN IF Truthy(q.mes) \/ Truthy(q.ano)
       THEN IF mes.ok /\ ano.ok
            THEN {r \in DOMAIN tabela : tabela[r].mes = mes.val /\ tabela[r].ano = ano.val}
            ELSE DOMAIN tabela
       ELSE {r \in DOMAIN tabela : tabela[r].mes = now.month /\ tabela[r].ano = now.year}

\* The date filter of get_queryset: month and year when both are given (none
\* at all when int() raises on one of them), the current month and year
\* otherwise.
por_data(tabela, now, q) ==
    LET mes == int(q.mes.txt)
        ano == int(q.ano.txt)
    IN IF Truthy(q.mes) /\ Truthy(q.ano)
       THEN IF mes.ok /\ ano.ok
            THEN {r \in DOMAIN tabela : tabela[r].mes = mes.val /\ tabela[r].ano = ano.val}
            ELSE DOMAIN tabela
       ELSE {r \in DOMAIN tabela : tabela[r].mes = now.month /\ tabela[r].ano = now.year}

\* RomaneioListView.get_queryset: the ids of the receipts it returns.
get_queryset(tabela, now, q) ==
    {r \in por_data(tabela, now, q) :
        /\ Truthy(q.cliente) => tabela[r].cliente_id = int(q.cliente.txt).val
        /\ Truthy(q.numero) => icontains(tabela[r].numero_romaneio, q.numero.txt)
        /\ Truthy(q.modalidade) => <<tabela[r].modalidade>> = q.modalidade.txt}

Cabecalhos ==
    [mes : {3, 4}, ano : {2024, 2025}, cliente_id : {1, 2},
     numero_romaneio : {<<"1", "0">>, <<"A", "2">>},
     modalidade : {"SIMPLES", "DETALHADO"}]

TabelasDeRomaneios == UNION {[1..n -> Cabecalhos] : n \in 0..MaxLista}

ConsultasLista ==
    [mes : {Ausente, Texto(<<>>), Texto(<<"3">>), Texto(<<"0", "4">>), Texto(<<"x">>)},
     ano : {Ausente, Texto(<<"2", "0", "2", "4">>), Texto(<<"2", "0", "2", "5">>),
            Texto(<<"2", "x">>)},
     cliente : {Ausente, Texto(<<"1">>)},
     numero : {Ausente, Texto(<<"a">>), Texto(<<"1">>)},
     modalidade : {Ausente, Texto(<<"SIMPLES">>)}]

InitLista ==
    /\ InitSave /\ InitPrecoVazio
    /\ romaneios \in TabelasDeRomaneios
    /\ agora \in {[month |-> 3, year |-> 2024], [month |-> 4, year |-> 2025]}
    /\ listaReq = NoQuery
    /\ listaResp = {}

RomaneioListView_get ==
    /\ listaReq = NoQuery
    /\ \E q \in ConsultasLista :
          /\ listaReq' = q
          /\ listaResp' = get_queryset(romaneios, agora, q)
    /\ UNCHANGED <<romaneios, agora, varsSave, varsPreco>>

NextLista == RomaneioListView_get

SpecLista == InitLista /\ [][NextLista]_vars

\* ------------------------------------------------------------------ claims
Salvou == resp.op \in {"create", "update"} /\ resp.status = "redirect"

Volumes(itens) == [i \in 1..Len(itens) |-> itens[i].quantidade_m3_total]
Valores(itens) == [i \in 1..Len(itens) |-> itens[i].valor_total]

RECURSIVE Concat(_)
Concat(ss) == IF ss = <<>> THEN <<>> ELSE Head(ss) \o Concat(Tail(ss))

\* Every unit of the receipt, in item order.
TodasUnidades(itens) == Concat([i \in 1..Len(itens) |-> itens[i].unidades])

\* C1: after every successful create or update the receipt's aggregate volume
\* and gross value are the sums of the volumes and values of the items the
\* receipt now has.
C1_AgregadosSomamItens ==
    Salvou => /\ db.m3_total = Soma(Volumes(db.itens))
              /\ db.valor_bruto = Soma(Valores(db.itens))

\* An update that deleted an item row and left items with a positive total.
C1_Witness ==
    /\ resp.op = "update" /\ resp.status = "redirect"
    /\ \E i \in 1..Len(antes.itens) : req.itens[i].del
    /\ Len(db.itens) >= 1
    /\ db.m3_total >= 2
    /\ db.valor_bruto > db.m3_total

\* C2: after a successful save every item of a DETALHADO receipt totals the
\* sum of its units, and every item of a SIMPLES receipt totals the volume
\* entered in its row (units left from an earlier mode do not count).
C2_TotalDoItem ==
    Salvou =>
        LET fs == ItemFormSet_save(req.itens, ItensDe(antes))
        IN \A j \in 1..Len(db.itens) :
              /\ db.modalidade = "DETALHADO" =>
                    db.itens[j].quantidade_m3_total = Soma(db.itens[j].unidades)
              /\ db.modalidade = "SIMPLES" =>
                    db.itens[j].quantidade_m3_total = req.itens[fs.linhas[j]].v

\* An update that turned a DETALHADO receipt into a SIMPLES one, an item of
\* which still owns units that sum to something else than its total.
C2_Witness ==
    /\ resp.op = "update" /\ resp.status = "redirect"
    /\ antes.modalidade = "DETALHADO" /\ db.modalidade = "SIMPLES"
    /\ \E j \in 1..Len(db.itens) :
          /\ db.itens[j].unidades # <<>>
          /\ db.itens[j].quantidade_m3_total # Soma(db.itens[j].unidades)

\* The unit rows of item row i of a create, none of which is a valid row not
\* marked DELETE.
SemUnidadeValida(post, i) ==
    \A k \in 1..Len(post.itens[i].us) :
        post.itens[i].us[k].del \/ ~unidade_is_valid(post.itens[i].us[k], 0)

\* The three validation layers of a submission for a receipt with `itens`.
Camada1(post) == FormValido(post)
Camada2(post, itens) == ItemFormSet_is_valid(post.itens, itens)
Camada3(post, itens) ==
    post.modalidade = "DETALHADO" =>
        \A i \in 1..Len(post.itens) :
            UnidadeFormSet_is_valid(post.itens[i].us, NIni(itens, i), UnidadesDe(itens, i), TRUE)

\* The preview unit formset of item row i of a create is valid by itself.
PreviewValido(post, i) == UnidadeFormSet_is_valid(post.itens[i].us, 0, <<>>, TRUE)

C4_Claim ==
    ( /\ resp.op = "update" /\ resp.falha = "nenhuma"
      /\ antes.modalidade = "DETALHADO" /\ req.modalidade = "DETALHADO"
      /\ \E i \in 1..Len(antes.itens) :
            /\ ~req.itens[i].del
            /\ antes.itens[i].unidades # <<>>
            /\ \A k \in 1..Len(req.itens[i].us) : req.itens[i].us[k].del )
    => (resp.status = "render" /\ db = antes)

\* C5 as stated: every persisted item of a DETALHADO receipt has a unit.
C5_Claim ==
    (Existe(db) /\ db.modalidade = "DETALHADO") =>
        \A j \in 1..Len(db.itens) : db.itens[j].unidades # <<>>

\* C6: a create or update writes only when the receipt fields, the item rows
\* and (in DETALHADO) the unit rows are all valid; when a layer fails the form
\* is re-rendered and the persisted state is the one before the request.
C6_EscritaSoAposValidacao ==
    resp.op \in {"create", "update"} =>
        LET ok == /\ Camada1(req)
                  /\ Camada2(req, ItensDe(antes))
                  /\ Camada3(req, ItensDe(antes))
        IN /\ db # antes => ok
           /\ ~ok => (db = antes /\ resp.status = "render")

\* An update of a receipt with items whose only fault is an invalid unit row.
C6_Witness ==
    /\ resp.op = "update" /\ resp.status = "render"
    /\ Len(antes.itens) >= 1
    /\ Camada1(req) /\ Camada2(req, antes.itens) /\ ~Camada3(req, antes.itens)
    /\ \E i \in 1..Len(req.itens) : item_has_changed(req.itens[i], NoItem)
    /\ db = antes

\* C7: a save that raises at any step commits nothing, and no committed state
\* has item or receipt totals that were not recomputed from what is stored.
C7_TudoOuNada ==
    /\ resp.status = "erro500" => db = antes
    /\ Existe(db) =>
          /\ db.m3_total = Soma(Volumes(db.itens))
          /\ db.valor_bruto = Soma(Valores(db.itens))
          /\ \A j \in 1..Len(db.itens) :
                /\ db.itens[j].valor_total =
                      db.itens[j].quantidade_m3_total * db.itens[j].valor_unitario
                /\ db.modalidade = "DETALHADO" =>
                      db.itens[j].quantidade_m3_total = Soma(db.itens[j].unidades)

\* An update that had written header, items and units when the rollup raised.
C7_Witness ==
    /\ resp.op = "update" /\ resp.status = "erro500" /\ resp.falha = "totais"
    /\ Passos(req, antes).unidades # antes
    /\ TodasUnidades(Passos(req, antes).unidades.itens) # TodasUnidades(antes.itens)
    /\ db = antes

\* The units of the items of `itens` whose row is not marked DELETE.
UnidadesQueFicam(post, itens) ==
    LET ficam == SelectSeq(Indices(1, Len(itens)), LAMBDA i : ~post.itens[i].del)
    IN Concat([j \in 1..Len(ficam) |-> itens[ficam[j]].unidades])

\* C10 as stated: a SIMPLES save succeeds whatever the unit rows hold, and the
\* persisted units after it are those before it.
C10_Original ==
    (resp.op \in {"create", "update"} /\ req.modalidade = "SIMPLES") =>
        /\ (Camada1(req) /\ Camada2(req, ItensDe(antes))) => resp.status # "render"
        /\ resp.status = "redirect" =>
              TodasUnidades(db.itens) = TodasUnidades(ItensDe(antes))

\* C10 amended: a SIMPLES save succeeds whatever the unit rows hold, and the
\* persisted units after it are those before it, less the units of the items
\* the save deleted: no unit row is written.
C10_Amended ==
    (resp.op \in {"create", "update"} /\ req.modalidade = "SIMPLES") =>
        /\ (Camada1(req) /\ Camada2(req, ItensDe(antes))) => resp.status # "render"
        /\ resp.status = "redirect" =>
              TodasUnidades(db.itens) = UnidadesQueFicam(req, ItensDe(antes))

\* A successful SIMPLES update of a receipt that has units, posted with a unit
\* row that is no number, a unit row marked DELETE and a new unit row.
C10_Witness ==
    /\ resp.op = "update" /\ resp.status = "redirect"
    /\ req.modalidade = "SIMPLES"
    /\ TodasUnidades(antes.itens) # <<>>
    /\ TodasUnidades(db.itens) = TodasUnidades(antes.itens)
    /\ \E i \in 1..Len(req.itens) : \E k \in 1..Len(req.itens[i].us) :
          req.itens[i].us[k].v < 0
    /\ \E i \in 1..Len(req.itens) : \E k \in 1..Len(req.itens[i].us) :
          req.itens[i].us[k].del
    /\ \E i \in 1..Len(req.itens) : \E k \in 1..Len(req.itens[i].us) :
          k > NIni(antes.itens, i) /\ req.itens[i].us[k].v >= 1

\* The units each persisted item has when the rows posted under the prefix of
\* its own item row are saved to it: the pairing of _build_unidades_formsets.
UnidadesPorLinha(post, itensAntes) ==
    LET fs == ItemFormSet_save(post.itens, itensAntes)
    IN [pos \in 1..Len(fs.itens) |->
           LET linha == fs.linhas[pos]
           IN UnidadeFormSet_save(post.itens[linha].us, NIni(itensAntes, linha),
                                  fs.itens[pos].unidades, TRUE)]

\* C11: after a successful DETALHADO save, every persisted item holds the
\* units of the rows posted under unidades-i, i being the item row it came
\* from, also when the instances returned by the item formset's save leave
\* out rows (unchanged, empty or deleted ones).
C11_Claim ==
    (Salvou /\ req.modalidade = "DETALHADO") =>
        LET esperado == UnidadesPorLinha(req, ItensDe(antes))
        IN /\ Len(db.itens) = Len(esperado)
           /\ \A pos \in 1..Len(db.itens) : db.itens[pos].unidades = esperado[pos]


\* C8: the price lookup answers success false with 404 for every number that
\* is no wood-type id, success true with the price of the requested category
\* for every id, and success false with 500 when the lookup fails otherwise
\* (an id that is no number).
C8_PrecoMadeira ==
    precoResp # NoQuery =>
        LET id == int(precoReq.tipo_madeira_id.txt)
            dado == precoReq.tipo_madeira_id.dado
        IN /\ (dado /\ id.ok /\ id.val \notin DOMAIN tipos) =>
                 (~precoResp.success /\ precoResp.status = 404)
           /\ (dado /\ id.ok /\ id.val \in DOMAIN tipos) =>
                 /\ precoResp.success /\ precoResp.status = 200
                 /\ precoReq.tipo_romaneio = "NORMAL" =>
                       precoResp.preco = tipos[id.val].preco_normal
                 /\ precoReq.tipo_romaneio = "COM_FRETE" =>
                       precoResp.preco = tipos[id.val].preco_com_frete
           /\ (dado /\ ~id.ok) => (~precoResp.success /\ precoResp.status = 500)

\* A lookup of an unknown id in a table that has wood types.
C8_Witness ==
    /\ precoResp # NoQuery
    /\ precoReq.tipo_madeira_id = Texto(<<"9">>)
    /\ DOMAIN tipos # {}
    /\ precoResp.status = 404

\* C9: with month m and year y the list holds only receipts dated in month m
\* of year y that also pass the client, number and mode filters given; with
\* neither month nor year it holds only receipts of the current month and
\* year.
C9_FiltroMesAno ==
    listaReq # NoQuery =>
        LET m == int(listaReq.mes.txt)
            y == int(listaReq.ano.txt)
        IN /\ (m.ok /\ y.ok) =>
                 \A r \in listaResp :
                    /\ romaneios[r].mes = m.val /\ romaneios[r].ano = y.val
                    /\ listaReq.cliente.dado =>
                          romaneios[r].cliente_id = int(listaReq.cliente.txt).val
                    /\ listaReq.numero.dado =>
                          icontains(romaneios[r].numero_romaneio, listaReq.numero.txt)
                    /\ listaReq.modalidade.dado =>
                          <<romaneios[r].modalidade>> = listaReq.modalidade.txt
           /\ (~listaReq.mes.dado /\ ~listaReq.ano.dado) =>
                 \A r \in listaResp :
                    romaneios[r].mes = agora.month /\ romaneios[r].ano = agora.year

\* A list of month 4 of 2025, asked in another month, that keeps one of two
\* receipts.
C9_Witness ==
    /\ listaReq # NoQuery
    /\ listaReq.mes = Texto(<<"0", "4">>)
    /\ listaReq.ano = Texto(<<"2", "0", "2", "5">>)
    /\ agora.month = 3
    /\ Cardinality(DOMAIN romaneios) = 2
    /\ Cardinality(listaResp) = 1

\* The receipts that pass the client, number and mode filters of a query.
OutrosFiltros(q) ==
    {r \in DOMAIN romaneios :
        /\ Truthy(q.cliente) => romaneios[r].cliente_id = int(q.cliente.txt).val
        /\ Truthy(q.numero) => icontains(romaneios[r].numero_romaneio, q.numero.txt)
        /\ Truthy(q.modalidade) => <<romaneios[r].modalidade>> = q.modalidade.txt}

\* C12: when exactly one of month and year is given, the given value is
\* ignored: the list holds the receipts of the current month and year that
\* pass the other filters, the same list as when both are left out.
C12_UmSoIgnorado ==
    (listaReq # NoQuery /\ (Truthy(listaReq.mes) # Truthy(listaReq.ano))) =>
        /\ listaResp = {r \in OutrosFiltros(listaReq) :
                           /\ romaneios[r].mes = agora.month
                           /\ romaneios[r].ano = agora.year}
        /\ listaResp = get_queryset(romaneios, agora,
                           [listaReq EXCEPT !.mes = Ausente, !.ano = Ausente])

\* A list asked with month 3 and no year in month 4 of 2025: of a receipt of
\* month 3 and one of month 4 of 2025 it holds the second only.
C12_Witness ==
    /\ listaReq # NoQuery
    /\ listaReq.mes = Texto(<<"3">>)
    /\ listaReq.ano = Ausente
    /\ agora = [month |-> 4, year |-> 2025]
    /\ Cardinality(DOMAIN romaneios) = 2
    /\ \E r \in DOMAIN romaneios : romaneios[r].mes = 3 /\ r \notin listaResp
    /\ \E r \in listaResp : romaneios[r].mes = 4 /\ romaneios[r].ano = 2025

====
